---- MODULE Spec2Model ----
(***************************************************************************)
(* The workflow-task lifecycle of heurist_python_sdk/workflow/__init__.py: *)
(* one Workflow object, one invocation of                                  *)
(* execute_workflow_and_wait_for_result on a caller-built descriptor, a    *)
(* second caller that may issue cancel_task on the same task id, and the   *)
(* remote queue that answers the four endpoints.                           *)
(*                                                                         *)
(* Strings the code inspects (credentials, consumer ids, job-id prefixes)  *)
(* are sequences of one-character strings; Python's None for such a field  *)
(* is the value None below, the empty string is <<>>.  An Optional[int] is *)
(* <<>> for None and <<n>> for n.  Times are milliseconds.                 *)
(***************************************************************************)
EXTENDS Integers, Sequences, FiniteSets, TLC

VARIABLES
    defaultConsumerId,  \* Workflow.defaultConsumerId
    defaultApiKey,      \* Workflow.defaultApiKey
    task,               \* the WorkflowTask object handed to the invocation
    orig,               \* history: the descriptor as the caller built it
    pc,                 \* position of the invocation
    timeout,            \* argument timeout (ms)
    interval,           \* argument interval (ms)
    task_id,            \* local task_id of the invocation
    start_time,         \* local start_time of the invocation (ms)
    result,             \* local result: the last query answer
    outcome,            \* what the invocation gave its caller
    clock,              \* asyncio.get_event_loop().time() * 1000
    remote,             \* status of the task at the remote queue
    retval,             \* the value the invocation returned, if it returned
    net,                \* history: the requests of the invocation, in order
    slept,              \* history: durations of the sleeps of the invocation
    cancels,            \* history: the cancel_task calls of the second caller
    par,                \* the invocations running side by side on the object
    fn                  \* a single call of a function: its input and result

vars == <<defaultConsumerId, defaultApiKey, task, orig, pc, timeout, interval,
          task_id, start_time, result, outcome, retval, clock, remote, net,
          slept, cancels, par, fn>>

driverVars == <<task, pc, timeout, interval, task_id, start_time, result,
                outcome, retval, slept>>

----------------------------------------------------------------------------
(* Bounds *)

MaxTimeoutK == 2      \* timeouts 0, 1000, .., MaxTimeoutK * 1000
MaxCancels == 1       \* cancel_task calls of the second caller

Timeouts == {k * 1000 : k \in 0..MaxTimeoutK}
Intervals == {500, 1000, 2000}
\* how long a network call can take
Latencies == {0, 500}
\* by how much a sleep can overshoot
Slacks == {0, 500}

----------------------------------------------------------------------------
(* Values *)

None == <<"None">>
NoneInt == <<>>

Truthy(v) == v # None /\ v # <<>>

TruthyInt(v) == v # NoneInt /\ v[1] # 0

\* Python's `a or b`
Or(a, b) == IF Truthy(a) THEN a ELSE b

Statuses == {"waiting", "running", "finished", "failed", "canceled"}

\* the statuses the glossary of the lifecycle calls terminal
TerminalStatuses == {"finished", "failed", "canceled"}

TaskId == "t1"
\* the local task_id before create_task returned
NoTaskId == "unbound"
MinerId == "m1"
CancelMsg == "ok"

----------------------------------------------------------------------------
(* Session credential *)

RECURSIVE IndexOf(_, _, _)
\* position of the first c in s at or after i, 0 when there is none
IndexOf(s, c, i) ==
    IF i > Len(s) THEN 0
    ELSE IF s[i] = c THEN i
    ELSE IndexOf(s, c, i + 1)

RECURSIVE LastIndexOf(_, _, _)
\* position of the last c in s at or before i, 0 when there is none
LastIndexOf(s, c, i) ==
    IF i < 1 THEN 0
    ELSE IF s[i] = c THEN i
    ELSE LastIndexOf(s, c, i - 1)

\* a variant that splits at the last separator
parse_api_key_string_last(combined_key) ==
    LET at == LastIndexOf(combined_key, "#", Len(combined_key))
    IN IF at # 0
       THEN [consumerId |-> SubSeq(combined_key, 1, at - 1),
             apiKey |-> SubSeq(combined_key, at + 1, Len(combined_key))]
       ELSE [consumerId |-> <<>>, apiKey |-> combined_key]

parse_api_key_string(combined_key) ==
    LET at == IndexOf(combined_key, "#", 1)
    IN IF at # 0
       THEN [consumerId |-> SubSeq(combined_key, 1, at - 1),
             apiKey |-> SubSeq(combined_key, at + 1, Len(combined_key))]
       ELSE [consumerId |-> <<>>, apiKey |-> combined_key]

\* the apiKey strings a client is constructed with
ClientApiKeys == {<<"k">>, <<"c", "#", "k">>}

----------------------------------------------------------------------------
(* Task descriptors *)

\* options.get(k, d)
Get(options, k, d) == IF k \in DOMAIN options THEN options[k] ELSE d

WorkflowTask(options) ==
    [consumerId |-> Get(options, "consumerId", None),
     job_id_prefix |-> Get(options, "job_id_prefix", None),
     timeout_seconds |-> Get(options, "timeout_seconds", NoneInt),
     workflow_id |-> Get(options, "workflow_id", None),
     apiKey |-> Get(options, "apiKey", None)]

\* r with the fields of e added (a subclass adds its own attributes)
Extend(r, e) ==
    [k \in DOMAIN r \cup DOMAIN e |-> IF k \in DOMAIN e THEN e[k] ELSE r[k]]

\* what options[k] gives on a missing key
KeyError == "KeyError"

\* options[k]
Item(options, k) == IF k \in DOMAIN options THEN options[k] ELSE KeyError

UpscalerTask(options) ==
    Extend(WorkflowTask(options),
           [task_type |-> "upscaler", image_url |-> Item(options, "image_url")])

\* a variant that reads lora_name as an optional field
FluxLoraTask_optional_lora(options) ==
    Extend(WorkflowTask(options),
           [task_type |-> "flux-lora",
            prompt |-> Item(options, "prompt"),
            aspect_ratio |-> Get(options, "aspect_ratio", "custom"),
            width |-> Get(options, "width", <<1024>>),
            height |-> Get(options, "height", <<1024>>),
            guidance |-> Get(options, "guidance", <<6>>),
            steps |-> Get(options, "steps", <<20>>),
            lora_name |-> Get(options, "lora_name", "None")])

FluxLoraTask(options) ==
    Extend(WorkflowTask(options),
           [task_type |-> "flux-lora",
            prompt |-> Item(options, "prompt"),
            aspect_ratio |-> Get(options, "aspect_ratio", "custom"),
            width |-> Get(options, "width", <<1024>>),
            height |-> Get(options, "height", <<1024>>),
            guidance |-> Get(options, "guidance", <<6>>),
            steps |-> Get(options, "steps", <<20>>),
            lora_name |-> Item(options, "lora_name")])

\* rnd is the value of the random 8-byte draw reduced modulo 2^53 - 1
Text2VideoTask(options, rnd) ==
    Extend(WorkflowTask(options),
           [task_type |-> "txt2vid",
            prompt |-> Item(options, "prompt"),
            width |-> Get(options, "width", <<848>>),
            height |-> Get(options, "height", <<480>>),
            length |-> Get(options, "length", <<37>>),
            steps |-> Get(options, "steps", <<30>>),
            seed |-> Get(options, "seed", <<rnd>>),
            fps |-> Get(options, "fps", <<24>>),
            quality |-> Get(options, "quality", <<80>>)])

\* the constructor raised: a subscript hit a missing key
Raised(t) ==
    \E k \in DOMAIN t \cap {"image_url", "prompt", "lora_name"} :
        t[k] = KeyError

task_details(t) ==
    CASE t.task_type = "upscaler" ->
           [parameters |-> [image |-> t.image_url]]
      [] t.task_type = "flux-lora" ->
           [parameters |-> [prompt |-> t.prompt,
                            aspect_ratio |-> t.aspect_ratio,
                            width |-> t.width,
                            height |-> t.height,
                            guidance |-> t.guidance,
                            steps |-> t.steps,
                            lora_name |-> t.lora_name]]
      [] t.task_type = "txt2vid" ->
           [parameters |-> [prompt |-> t.prompt,
                            width |-> t.width,
                            height |-> t.height,
                            length |-> t.length,
                            steps |-> t.steps,
                            seed |-> t.seed,
                            fps |-> t.fps,
                            quality |-> t.quality]]

\* the descriptors the caller builds
Descriptors ==
    { UpscalerTask([image_url |-> "img"]),
      UpscalerTask([image_url |-> "img", consumerId |-> <<"u">>,
                    apiKey |-> <<"o">>, job_id_prefix |-> <<"p">>,
                    workflow_id |-> <<"w">>, timeout_seconds |-> <<60>>]),
      FluxLoraTask([prompt |-> "a cat", lora_name |-> "lora",
                    consumerId |-> <<>>, apiKey |-> None]),
      Text2VideoTask([prompt |-> "a dog", timeout_seconds |-> <<0>>,
                      apiKey |-> <<"o">>], 7) }

----------------------------------------------------------------------------
(* Requests *)

HexLen == 10

\* string.hexdigits
string_hexdigits ==
    <<"0", "1", "2", "3", "4", "5", "6", "7", "8", "9",
      "a", "b", "c", "d", "e", "f", "A", "B", "C", "D", "E", "F">>

\* str.lower(), one character
lower(c) ==
    CASE c = "A" -> "a" [] c = "B" -> "b" [] c = "C" -> "c"
      [] c = "D" -> "d" [] c = "E" -> "e" [] c = "F" -> "f"
      [] OTHER -> c

\* a variant that takes string.hexdigits as it is
hex_chars_mixed == string_hexdigits

\* string.hexdigits.lower()[:16]
hex_chars ==
    SubSeq([i \in 1..Len(string_hexdigits) |-> lower(string_hexdigits[i])],
           1, 16)

\* "".join(random.choice(hex_chars) for _ in range(length)); draw[i] is the
\* random number behind the i-th choice
random_hex(length, draw) ==
    [i \in 1..length |-> hex_chars[(draw[i] % Len(hex_chars)) + 1]]

\* results of generate_random_hex(length): a sample of the 16^length strings
generate_random_hex(length) ==
    {random_hex(length, [i \in 1..length |-> IF i % 2 = 1 THEN c ELSE 7]) :
        c \in {0, 15}}

DefaultJobIdPrefix ==
    <<"s", "d", "k", "-", "w", "o", "r", "k", "f", "l", "o", "w">>

\* f"{job_id_prefix}-{id}"
job_id_of(prefix, id) == prefix \o <<"-">> \o id

resource_request_url == "resource_request"
create_task_url == "task_create"
\* a variant that polls the wrong endpoint
query_task_result_url_cancel == "task_cancel"
query_task_result_url == "task_result_query"
cancel_task_url == "task_cancel"

resource_request_data(consumer_id) ==
    [consumer_id |-> consumer_id, apiKey |-> defaultApiKey]

\* a variant that overwrites what the caller set
apply_defaults_always(t) ==
    [t EXCEPT !.consumerId = defaultConsumerId, !.apiKey = defaultApiKey]

\* the descriptor after `# Apply default values`
apply_defaults(t) ==
    [t EXCEPT !.consumerId = Or(t.consumerId, defaultConsumerId),
              !.apiKey = Or(t.apiKey, defaultApiKey)]

\* a variant that threads the miner id into the payload
create_task_data_miner(t, j) ==
    [job_id |-> j,
     task_type |-> t.task_type,
     consumer_id |-> t.consumerId,
     apiKey |-> t.apiKey,
     parameters |-> task_details(t).parameters,
     miner_id |-> MinerId]

\* the task_create payload of the descriptor t (defaults applied) with job id j
create_task_data(t, j) ==
    LET full == [job_id |-> j,
                 task_type |-> t.task_type,
                 consumer_id |-> t.consumerId,
                 apiKey |-> t.apiKey,
                 parameters |-> task_details(t).parameters,
                 workflow_id |-> t.workflow_id,
                 timeout_seconds |-> t.timeout_seconds]
        absent == (IF Truthy(t.workflow_id) THEN {} ELSE {"workflow_id"})
                  \cup (IF TruthyInt(t.timeout_seconds) THEN {}
                        ELSE {"timeout_seconds"})
    IN [k \in DOMAIN full \ absent |-> full[k]]

\* a variant that polls with the key the task was created under
query_task_result_data_task_key(tid) ==
    [task_id |-> tid, apiKey |-> task.apiKey]

query_task_result_data(tid) == [task_id |-> tid, apiKey |-> defaultApiKey]

cancel_task_data(tid) == [task_id |-> tid, apiKey |-> defaultApiKey]

\* one request as the history records it: where it went, what it carried and
\* the answer (ok is response.ok, resp is response.json())
Request(url, data, ok, resp) ==
    [url |-> url, data |-> data, ok |-> ok, resp |-> resp]

NoResp == [error |-> "reason"]

\* the value of `result` before any query answered
NoResult == [task_id |-> NoTaskId, status |-> "none", result |-> "null"]

\* no invocations side by side, no function call
NoPar == [on |-> FALSE]
NoCall == [op |-> "none"]

----------------------------------------------------------------------------
(* Control flow of execute_workflow_and_wait_for_result *)

\* a variant that lost a zero of the threshold
IntervalRejected_100(iv) == iv < 100

\* `if interval < 1000`
IntervalRejected(iv) == iv < 1000

\* a variant that tries the failed call again
AfterCall_retry(at, ok) ==
    IF ~ok THEN at
    ELSE IF at = "resource_request" THEN "create_task"
    ELSE "query"

\* where the invocation continues after the call it awaited at `at` answered
AfterCall(at, ok) ==
    IF ~ok THEN "done"
    ELSE IF at = "resource_request" THEN "create_task"
    ELSE "query"

\* the exception a call raises on `not response.ok`
CallError(at) ==
    CASE at = "resource_request" -> "ResourceUnavailable"
      [] at = "create_task" -> "TaskCreationFailed"
      [] at = "query" -> "QueryFailed"

\* a variant that compares the clock itself, not the elapsed time
LoopDecision_no_start(st, now, start, tmo) ==
    IF st \in {"finished", "failed"} THEN "return"
    ELSE IF now > tmo THEN "timeout"
    ELSE "sleep"

\* a variant that subtracts the wrong way round
LoopDecision_swapped(st, now, start, tmo) ==
    IF st \in {"finished", "failed"} THEN "return"
    ELSE IF start - now > tmo THEN "timeout"
    ELSE "sleep"

\* a variant that tests the deadline before the status
LoopDecision_deadline_first(st, now, start, tmo) ==
    IF now - start > tmo THEN "timeout"
    ELSE IF st \in {"finished", "failed"} THEN "return"
    ELSE "sleep"

\* the body of `while True` after a query answered with status st at time now
LoopDecision(st, now, start, tmo) ==
    IF st \in {"finished", "failed"} THEN "return"
    ELSE IF now - start > tmo THEN "timeout"
    ELSE "sleep"

\* a variant that takes the seconds for milliseconds
SleepTime_seconds(iv, slack) == (iv \div 1000) + slack

\* asyncio.sleep(interval / 1000) suspends for at least the interval
SleepTime(iv, slack) == iv + slack

----------------------------------------------------------------------------
(* The remote queue *)

\* the statuses a task can move to on its own
RemoteNext(st) ==
    CASE st = "waiting" -> {"running", "finished", "failed"}
      [] st = "running" -> {"finished", "failed"}
      [] OTHER -> {}

\* the status of a task after the remote accepted a cancel request for it
RemoteCancel(st) == IF st \in {"waiting", "running"} THEN "canceled" ELSE st

----------------------------------------------------------------------------
(* Initial state: a client and its Workflow object are constructed, the     *)
(* caller has built a descriptor, nothing has been called.                 *)

Init ==
    /\ \E key \in ClientApiKeys :
         /\ defaultConsumerId = parse_api_key_string(key).consumerId
         /\ defaultApiKey = parse_api_key_string(key).apiKey
    /\ task \in Descriptors
    /\ orig = task
    /\ pc = "idle"
    /\ timeout = 0
    /\ interval = 0
    /\ task_id = NoTaskId
    /\ start_time = 0
    /\ result = NoResult
    /\ outcome = "none"
    /\ retval = NoResult
    /\ clock = 0
    /\ remote = "none"
    /\ net = <<>>
    /\ slept = <<>>
    /\ cancels = <<>>
    /\ par = NoPar
    /\ fn = NoCall

----------------------------------------------------------------------------
(* execute_workflow_and_wait_for_result, one action per stretch of code     *)
(* between two suspension points                                           *)

\* the call itself: the interval test
execute_workflow_and_wait_for_result ==
    /\ pc = "idle"
    /\ \E tmo \in Timeouts, iv \in Intervals :
         /\ timeout' = tmo
         /\ interval' = iv
         /\ IF IntervalRejected(iv)
            THEN pc' = "done" /\ outcome' = "ConfigurationError"
            ELSE pc' = "resource_request" /\ outcome' = outcome
    /\ UNCHANGED <<par, fn, defaultConsumerId, defaultApiKey, task, orig, task_id,
                   start_time, result, retval, clock, remote, net, slept,
                   cancels>>

\* execute_workflow, first await: resource_request; the miner id of the
\* answer is dropped
resource_request ==
    /\ pc = "resource_request"
    /\ \E ok \in BOOLEAN, lat \in Latencies :
         /\ net' = Append(net,
                Request(resource_request_url,
                        resource_request_data(
                            Or(task.consumerId, defaultConsumerId)),
                        ok,
                        IF ok THEN [miner_id |-> MinerId] ELSE NoResp))
         /\ clock' = clock + lat
         /\ pc' = AfterCall("resource_request", ok)
         /\ outcome' = IF ok THEN outcome ELSE CallError("resource_request")
    /\ UNCHANGED <<par, fn, defaultConsumerId, defaultApiKey, task, orig, timeout,
                   interval, task_id, start_time, result, retval, remote,
                   slept, cancels>>

\* execute_workflow, second await: create_task; on its answer the task id is
\* kept and the start time read
create_task ==
    /\ pc = "create_task"
    /\ \E ok \in BOOLEAN, lat \in Latencies,
          id \in generate_random_hex(HexLen) :
         LET job_id == job_id_of(Or(task.job_id_prefix, DefaultJobIdPrefix),
                                 id)
             t == apply_defaults(task)
         IN /\ task' = t
            /\ net' = Append(net,
                   Request(create_task_url,
                           create_task_data(t, job_id), ok,
                           IF ok THEN [task_id |-> TaskId] ELSE NoResp))
            /\ clock' = clock + lat
            /\ pc' = AfterCall("create_task", ok)
            /\ outcome' = IF ok THEN outcome ELSE CallError("create_task")
            /\ task_id' = IF ok THEN TaskId ELSE task_id
            /\ start_time' = IF ok THEN clock' ELSE start_time
            /\ remote' = IF ok THEN "waiting" ELSE remote
    /\ UNCHANGED <<par, fn, defaultConsumerId, defaultApiKey, orig, timeout, interval,
                   result, retval, slept, cancels>>

\* one turn of the loop: query_task_result and the two tests on its answer
query_task_result ==
    /\ pc = "query"
    /\ \E ok \in BOOLEAN, lat \in Latencies :
         LET answer == [task_id |-> task_id, status |-> remote,
                        result |-> IF remote = "finished" THEN "output"
                                   ELSE "null"]
             next == LoopDecision(remote, clock + lat, start_time, timeout)
         IN /\ net' = Append(net,
                   Request(query_task_result_url,
                           query_task_result_data(task_id), ok,
                           IF ok THEN answer ELSE NoResp))
            /\ clock' = clock + lat
            /\ IF ~ok
               THEN /\ pc' = AfterCall("query", ok)
                    /\ outcome' = CallError("query")
                    /\ UNCHANGED <<result, retval>>
               ELSE /\ result' = answer
                    /\ pc' = IF next = "sleep" THEN "sleep" ELSE "done"
                    /\ outcome' = CASE next = "return" -> "returned"
                                    [] next = "timeout" -> "Timeout"
                                    [] OTHER -> outcome
                    /\ retval' = IF next = "return" THEN answer ELSE retval
    /\ UNCHANGED <<par, fn, defaultConsumerId, defaultApiKey, task, orig, timeout,
                   interval, task_id, start_time, remote, slept, cancels>>

\* await asyncio.sleep(interval / 1000)
sleep ==
    /\ pc = "sleep"
    /\ \E slack \in Slacks :
         /\ clock' = clock + SleepTime(interval, slack)
         /\ slept' = Append(slept, SleepTime(interval, slack))
    /\ pc' = "query"
    /\ UNCHANGED <<par, fn, defaultConsumerId, defaultApiKey, task, orig, timeout,
                   interval, task_id, start_time, result, outcome, retval,
                   remote, net, cancels>>

----------------------------------------------------------------------------
(* cancel_task, called by another caller that holds the task id             *)

\* a variant in which the cancel call also stops the polling loop
cancel_task_stops_loop ==
    /\ remote # "none"
    /\ Len(cancels) < MaxCancels
    /\ \E ok \in BOOLEAN :
         LET answer == [task_id |-> TaskId, msg |-> CancelMsg]
         IN /\ cancels' = Append(cancels,
                   [req |-> Request(cancel_task_url,
                                    cancel_task_data(TaskId), ok,
                                    IF ok THEN answer ELSE NoResp),
                    out |-> IF ok THEN answer
                            ELSE [error |-> "CancellationFailed"]])
            /\ remote' = IF ok THEN RemoteCancel(remote) ELSE remote
            /\ pc' = IF ok THEN "done" ELSE pc
    /\ UNCHANGED <<par, fn, defaultConsumerId, defaultApiKey, task, orig, timeout,
                   interval, task_id, start_time, result, outcome, retval,
                   clock, net, slept>>

cancel_task ==
    /\ remote # "none"
    /\ Len(cancels) < MaxCancels
    /\ \E ok \in BOOLEAN :
         LET answer == [task_id |-> TaskId, msg |-> CancelMsg]
         IN /\ cancels' = Append(cancels,
                   [req |-> Request(cancel_task_url,
                                    cancel_task_data(TaskId), ok,
                                    IF ok THEN answer ELSE NoResp),
                    out |-> IF ok THEN answer
                            ELSE [error |-> "CancellationFailed"]])
            /\ remote' = IF ok THEN RemoteCancel(remote) ELSE remote
    /\ UNCHANGED <<par, fn, defaultConsumerId, defaultApiKey, task, orig, pc, timeout,
                   interval, task_id, start_time, result, outcome, retval,
                   clock, net, slept>>

----------------------------------------------------------------------------
(* The remote queue moves the task on its own *)

RemoteProgress ==
    /\ \E st \in RemoteNext(remote) : remote' = st
    /\ UNCHANGED <<par, fn, defaultConsumerId, defaultApiKey, task, orig, pc, timeout,
                   interval, task_id, start_time, result, outcome, retval,
                   clock, net, slept, cancels>>

Next ==
    \/ execute_workflow_and_wait_for_result
    \/ resource_request
    \/ create_task
    \/ query_task_result
    \/ sleep
    \/ cancel_task
    \/ RemoteProgress

Spec == Init /\ [][Next]_vars

----------------------------------------------------------------------------
(* Views of the history *)

IsQuery(r) == r.url = query_task_result_url

\* the queries of the invocation, in order
Queries == SelectSeq(net, IsQuery)

\* the status a query was answered with
StatusOf(r) == IF r.ok THEN r.resp.status ELSE "error"

\* the time elapsed since the recorded start time
Elapsed == clock - start_time

HttpErrors == {"ResourceUnavailable", "TaskCreationFailed", "QueryFailed"}

----------------------------------------------------------------------------
(* C1: an interval below 1000 is rejected at once with the configuration    *)
(* error: no request is sent, the remote has no task, and the descriptor is *)
(* as the caller built it.                                                  *)

C1_IntervalRejected ==
    (pc # "idle" /\ interval < 1000) =>
        /\ pc = "done"
        /\ outcome = "ConfigurationError"
        /\ net = <<>>
        /\ remote = "none"
        /\ task = orig

C1_Witness ==
    pc = "done" /\ interval = 500 /\ outcome = "ConfigurationError"

(* C2: a query answer with status canceled ends the loop: the invocation    *)
(* returns that answer, raises nothing and sends no further query.          *)

C2_CanceledIsTerminal ==
    result.status = "canceled" =>
        /\ pc = "done"
        /\ outcome = "returned"
        /\ retval = result

(* C3: no query follows a failed call or an answer of finished or failed;   *)
(* there is one sleep of at least the interval between two consecutive      *)
(* queries and none before the first; a finished answer ends the invocation *)
(* and is returned unchanged; after a running or waiting answer the         *)
(* invocation stops only with Timeout past the deadline -- so N running     *)
(* answers then finished make N + 1 queries and N sleeps.                   *)

C3_RunningThenFinished ==
    LET n == Len(Queries)
    IN /\ \A i \in 1..(n - 1) :
            StatusOf(Queries[i]) \in {"waiting", "running", "canceled"}
       /\ \A i \in 1..Len(slept) : slept[i] >= interval
       /\ n > 0 => Len(slept) = (IF pc = "query" THEN n ELSE n - 1)
       /\ n = 0 => slept = <<>>
       /\ (n > 0 /\ StatusOf(Queries[n]) = "finished") =>
            /\ pc = "done"
            /\ outcome = "returned"
            /\ retval = Queries[n].resp
       /\ (n > 0 /\ StatusOf(Queries[n]) \in {"running", "waiting"}
             /\ pc = "done") =>
            /\ outcome = "Timeout"
            /\ Elapsed > timeout

C3_Witness ==
    /\ Len(Queries) = 3
    /\ StatusOf(Queries[1]) = "waiting"
    /\ StatusOf(Queries[2]) = "running"
    /\ StatusOf(Queries[3]) = "finished"
    /\ outcome = "returned"
    /\ Len(slept) = 2

(* C4: Timeout is raised only when the time elapsed since the start time    *)
(* exceeds the timeout, and an invocation whose queries were all answered   *)
(* waiting ends with Timeout; with timeout 2000 and interval 1000 that is   *)
(* after one to three sleeps.                                               *)

C4_TimeoutNotEarly ==
    /\ outcome = "Timeout" => Elapsed > timeout
    /\ (/\ pc = "done"
        /\ Queries # <<>>
        /\ \A i \in 1..Len(Queries) :
             StatusOf(Queries[i]) = "waiting") =>
         /\ outcome = "Timeout"
         /\ (timeout = 2000 /\ interval = 1000) => Len(slept) \in 1..3

C4_Witness ==
    /\ outcome = "Timeout"
    /\ timeout = 2000
    /\ interval = 1000
    /\ Len(slept) = 2
    /\ \A i \in 1..Len(Queries) : StatusOf(Queries[i]) = "waiting"

(* C5 as stated: the deadline is tested after the sleep, so no query is     *)
(* sent at a poll boundary where the elapsed time exceeds the timeout.      *)

C5_NoQueryPastDeadline ==
    (pc = "query" /\ slept # <<>>) => Elapsed <= timeout

(* C5 amended: the deadline is tested right after a non-final answer and    *)
(* before the sleep, so a sleep starts only with the elapsed time within    *)
(* the timeout, and the query after it is sent with the elapsed time at     *)
(* most the timeout plus that one sleep.                                    *)

C5_DeadlineTestedBeforeSleep ==
    /\ pc = "sleep" => Elapsed <= timeout
    /\ (pc = "query" /\ slept # <<>>) =>
         Elapsed <= timeout + slept[Len(slept)]

C5_Witness ==
    /\ pc = "query"
    /\ slept # <<>>
    /\ Elapsed > timeout
    /\ Elapsed = timeout + slept[Len(slept)]

(* C6: the invocation sends one resource_request, then one task_create,     *)
(* then only task_result_query requests, never a task_cancel; a task is     *)
(* canceled at the remote only by a cancel_task call of the second caller,  *)
(* also after Timeout.                                                      *)

C6_NoAutoCancel ==
    /\ \A i \in 1..Len(net) :
         /\ net[i].url # cancel_task_url
         /\ net[i].url = CASE i = 1 -> resource_request_url
                           [] i = 2 -> create_task_url
                           [] OTHER -> query_task_result_url
    /\ outcome = "Timeout" => Len(net) >= 3
    /\ remote = "canceled" =>
         \E i \in 1..Len(cancels) : cancels[i].req.ok

C6_Witness ==
    /\ outcome = "Timeout"
    /\ remote \in {"waiting", "running"}
    /\ Len(net) = 4

(* C7: a call that got a non-success status is the last request of the      *)
(* invocation, which ended at once with that call's error; nothing is sent  *)
(* or slept after it.                                                       *)

C7_NoRetry ==
    \A i \in 1..Len(net) :
        ~net[i].ok =>
            /\ i = Len(net)
            /\ pc = "done"
            /\ outcome = CASE net[i].url = resource_request_url ->
                                "ResourceUnavailable"
                           [] net[i].url = create_task_url ->
                                "TaskCreationFailed"
                           [] OTHER -> "QueryFailed"
            /\ Len(slept) = (IF i > 3 THEN i - 3 ELSE 0)

C7_Witness ==
    /\ Len(net) = 4
    /\ ~net[4].ok
    /\ outcome = "QueryFailed"

(* C8: the requests come in the order resource_request, task_create,        *)
(* queries, each sent after the one before succeeded; every query carries   *)
(* the task id task_create returned; the miner id of the resource_request   *)
(* answer is in no task_create payload and the descriptor gains no field.   *)

C8_AcquireSubmitQuery ==
    /\ Len(net) >= 1 => net[1].url = resource_request_url
    /\ Len(net) >= 2 =>
         /\ net[1].ok
         /\ net[2].url = create_task_url
         /\ DOMAIN net[2].data \subseteq
                {"job_id", "task_type", "consumer_id", "apiKey", "parameters",
                 "workflow_id", "timeout_seconds"}
         /\ net[2].data.task_type # net[1].resp.miner_id
         /\ DOMAIN task = DOMAIN orig
    /\ \A i \in 3..Len(net) :
         /\ net[2].ok
         /\ net[i].url = query_task_result_url
         /\ net[i].data.task_id = net[2].resp.task_id
         /\ task_id = net[2].resp.task_id
    /\ Len(net) < 2 => task = orig

C8_Witness ==
    /\ Len(net) = 4
    /\ net[4].data.task_id = TaskId
    /\ net[1].resp.miner_id = MinerId

(* C9: an answer with status failed is returned, not raised; the errors of  *)
(* the invocation are the configuration error, a failed call, or Timeout;   *)
(* Timeout follows only an answer whose status is not terminal.             *)

C9_FailedIsAnOutcome ==
    /\ result.status = "failed" =>
         pc = "done" /\ outcome = "returned" /\ retval = result
    /\ outcome \in {"none", "returned", "ConfigurationError", "Timeout"}
                     \cup HttpErrors
    /\ outcome = "Timeout" => result.status \notin TerminalStatuses

(* C10: a cancel_task call of the second caller changes nothing the         *)
(* invocation holds -- its position, start time, task id, interval,         *)
(* timeout, last answer, outcome -- nor its requests or the clock; the      *)
(* invocation's last answer changes only in a step in which it sent a query *)
(* and got that answer.                                                     *)

C10_CancelIsOutOfBand ==
    [][/\ cancels' # cancels => UNCHANGED <<driverVars, net, clock>>
       /\ result' # result =>
            /\ Len(net') = Len(net) + 1
            /\ net'[Len(net')].url = query_task_result_url
            /\ net'[Len(net')].resp = result']_vars

C10_Witness ==
    /\ cancels # <<>>
    /\ cancels[1].req.ok
    /\ remote = "canceled"
    /\ pc = "sleep"
    /\ result.status = "running"

----------------------------------------------------------------------------
(* Several invocations side by side on one Workflow object.  The object     *)
(* holds defaultConsumerId and defaultApiKey only; everything else is a     *)
(* local of the invocation.  par.drv[i] are the locals of invocation i,     *)
(* par.clock the event loop's time, par.remote the status of each task at   *)
(* the remote queue.  An invocation that suspended at time `since` resumes  *)
(* no earlier than since plus the time its await takes; meanwhile the other *)
(* invocation may run.                                                      *)

Invocations == {1, 2}

\* the task ids the remote queue hands out, in this order
RemoteTaskIds == <<"t1", "t2">>

\* the timeouts and intervals invocation i is called with
ParTimeouts(i) == IF i = 1 THEN {0} ELSE {500}
ParIntervals == {500, 1000}

NoDescriptor == [task_type |-> "none"]

\* the descriptor invocation i is called with
ParDescriptor(i) ==
    IF i = 1
    THEN UpscalerTask([image_url |-> "img"])
    ELSE UpscalerTask([image_url |-> "img2", apiKey |-> <<"o">>,
                       job_id_prefix |-> <<"p">>])

Max(a, b) == IF a >= b THEN a ELSE b

\* the main variables while no single invocation is being followed
Parked ==
    /\ task = NoDescriptor
    /\ orig = NoDescriptor
    /\ pc = "absent"
    /\ timeout = 0
    /\ interval = 0
    /\ task_id = NoTaskId
    /\ start_time = 0
    /\ result = NoResult
    /\ outcome = "none"
    /\ retval = NoResult
    /\ clock = 0
    /\ remote = "none"
    /\ net = <<>>
    /\ slept = <<>>
    /\ cancels = <<>>

mainVars == <<defaultConsumerId, defaultApiKey, task, orig, pc, timeout,
              interval, task_id, start_time, result, outcome, retval, clock,
              remote, net, slept, cancels>>

InitPar ==
    /\ defaultConsumerId = parse_api_key_string(<<"c", "#", "k">>).consumerId
    /\ defaultApiKey = parse_api_key_string(<<"c", "#", "k">>).apiKey
    /\ Parked
    /\ fn = NoCall
    /\ par = [on |-> TRUE,
              clock |-> 0,
              issued |-> 0,
              remote |-> [t \in {"t1", "t2"} |-> "none"],
              drv |-> [i \in Invocations |->
                         [pc |-> "idle",
                          task |-> ParDescriptor(i),
                          orig |-> ParDescriptor(i),
                          timeout |-> 0,
                          interval |-> 0,
                          task_id |-> NoTaskId,
                          start_time |-> 0,
                          result |-> NoResult,
                          outcome |-> "none",
                          retval |-> NoResult,
                          since |-> 0,
                          submit_at |-> 0,
                          net |-> <<>>]]]

\* a variant that keeps the task id and the start time on the Workflow
\* object, where every invocation reads them
keep_submission_on_object(d, i, tid, now) ==
    [j \in DOMAIN d |-> [d[j] EXCEPT !.task_id = tid, !.start_time = now]]

\* `task_id = await self.execute_workflow(task)` and `start_time = ...`:
\* both are locals of invocation i
keep_submission(d, i, tid, now) ==
    [d EXCEPT ![i].task_id = tid, ![i].start_time = now]

P_execute_workflow_and_wait_for_result(i) ==
    /\ par.on
    /\ par.drv[i].pc = "idle"
    /\ \E tmo \in ParTimeouts(i), iv \in ParIntervals :
         par' = [par EXCEPT
                   !.drv[i].timeout = tmo,
                   !.drv[i].interval = iv,
                   !.drv[i].since = par.clock,
                   !.drv[i].pc = IF IntervalRejected(iv) THEN "done"
                                 ELSE "resource_request",
                   !.drv[i].outcome = IF IntervalRejected(iv)
                                      THEN "ConfigurationError"
                                      ELSE "none"]
    /\ UNCHANGED <<mainVars, fn>>

P_resource_request(i) ==
    /\ par.on
    /\ par.drv[i].pc = "resource_request"
    /\ \E ok \in BOOLEAN, lat \in Latencies :
         LET l == par.drv[i]
             now == Max(par.clock, l.since + lat)
         IN par' = [par EXCEPT
                      !.clock = now,
                      !.drv[i].since = now,
                      !.drv[i].net = Append(l.net,
                          Request(resource_request_url,
                                    resource_request_data(
                                        Or(l.task.consumerId,
                                           defaultConsumerId)),
                                    ok,
                                    IF ok THEN [miner_id |-> MinerId]
                                    ELSE NoResp)),
                      !.drv[i].pc = AfterCall("resource_request", ok),
                      !.drv[i].outcome =
                          IF ok THEN l.outcome
                          ELSE CallError("resource_request")]
    /\ UNCHANGED <<mainVars, fn>>

P_create_task(i) ==
    /\ par.on
    /\ par.drv[i].pc = "create_task"
    /\ \E ok \in BOOLEAN, lat \in Latencies :
         LET l == par.drv[i]
             now == Max(par.clock, l.since + lat)
             id == [k \in 1..HexLen |-> "0"]
             job_id == job_id_of(Or(l.task.job_id_prefix,
                                    DefaultJobIdPrefix), id)
             t == apply_defaults(l.task)
             tid == RemoteTaskIds[par.issued + 1]
             sent == [par EXCEPT
                        !.clock = now,
                        !.drv[i].since = now,
                        !.drv[i].task = t,
                        !.drv[i].submit_at = now,
                        !.drv[i].net = Append(l.net,
                            Request(create_task_url,
                                      create_task_data(t, job_id), ok,
                                      IF ok THEN [task_id |-> tid]
                                      ELSE NoResp)),
                        !.drv[i].pc = AfterCall("create_task", ok),
                        !.drv[i].outcome =
                            IF ok THEN l.outcome
                            ELSE CallError("create_task")]
         IN par' = IF ok
                   THEN [sent EXCEPT
                           !.issued = par.issued + 1,
                           !.remote[tid] = "waiting",
                           !.drv = keep_submission(sent.drv, i, tid, now)]
                   ELSE sent
    /\ UNCHANGED <<mainVars, fn>>

P_query_task_result(i) ==
    /\ par.on
    /\ par.drv[i].pc = "query"
    /\ \E ok \in BOOLEAN, lat \in Latencies :
         LET l == par.drv[i]
             now == Max(par.clock, l.since + lat)
             st == par.remote[l.task_id]
             answer == [task_id |-> l.task_id, status |-> st,
                        result |-> IF st = "finished" THEN "output"
                                   ELSE "null"]
             next == LoopDecision(st, now, l.start_time, l.timeout)
             sent == [par EXCEPT
                        !.clock = now,
                        !.drv[i].since = now,
                        !.drv[i].net = Append(l.net,
                            Request(query_task_result_url,
                                      query_task_result_data(l.task_id), ok,
                                      IF ok THEN answer ELSE NoResp))]
         IN par' = IF ~ok
                   THEN [sent EXCEPT
                           !.drv[i].pc = AfterCall("query", ok),
                           !.drv[i].outcome = CallError("query")]
                   ELSE [sent EXCEPT
                           !.drv[i].result = answer,
                           !.drv[i].pc = IF next = "sleep" THEN "sleep"
                                         ELSE "done",
                           !.drv[i].outcome =
                               CASE next = "return" -> "returned"
                                 [] next = "timeout" -> "Timeout"
                                 [] OTHER -> l.outcome,
                           !.drv[i].retval = IF next = "return" THEN answer
                                             ELSE l.retval]
    /\ UNCHANGED <<mainVars, fn>>

P_sleep(i) ==
    /\ par.on
    /\ par.drv[i].pc = "sleep"
    /\ LET l == par.drv[i]
           now == Max(par.clock, l.since + SleepTime(l.interval, 0))
       IN par' = [par EXCEPT
                      !.clock = now,
                      !.drv[i].since = now,
                      !.drv[i].pc = "query"]
    /\ UNCHANGED <<mainVars, fn>>

P_RemoteProgress(tid) ==
    /\ par.on
    /\ \E st \in RemoteNext(par.remote[tid]) :
         par' = [par EXCEPT !.remote[tid] = st]
    /\ UNCHANGED <<mainVars, fn>>

NextPar ==
    \/ \E i \in Invocations : P_execute_workflow_and_wait_for_result(i)
    \/ \E i \in Invocations : P_resource_request(i)
    \/ \E i \in Invocations : P_create_task(i)
    \/ \E i \in Invocations : P_query_task_result(i)
    \/ \E i \in Invocations : P_sleep(i)
    \/ \E tid \in {"t1", "t2"} : P_RemoteProgress(tid)

SpecPar == InitPar /\ [][NextPar]_vars

----------------------------------------------------------------------------
(* C11: invocations side by side do not interfere.  A step changes the      *)
(* locals of one invocation at most; each invocation holds the task id its  *)
(* own task_create returned, different from the other's, and sends it in    *)
(* every query; its start time is the time its own task_create answered;    *)
(* its descriptor is its own; and what it does after a query -- return the  *)
(* answer, raise Timeout, or sleep -- is what the loop run alone does with  *)
(* that answer for its own task, its own start time and its own timeout.    *)

ParOwn(i) ==
    LET l == par.drv[i]
        n == Len(l.net)
        bound == n >= 2 /\ l.net[2].ok
    IN /\ l.task_id = (IF bound THEN l.net[2].resp.task_id ELSE NoTaskId)
       /\ l.start_time = (IF bound THEN l.submit_at ELSE 0)
       /\ l.task = (IF n >= 2 THEN apply_defaults(l.orig) ELSE l.orig)
       /\ l.orig = ParDescriptor(i)
       /\ \A k \in 3..n :
            /\ l.net[k].url = query_task_result_url
            /\ l.net[k].data.task_id = l.net[2].resp.task_id
            /\ l.net[k].ok => l.net[k].resp.task_id = l.net[2].resp.task_id
       /\ (n >= 3 /\ l.net[n].ok /\ l.pc \in {"sleep", "done"}) =>
            LET alone == LoopDecision(l.net[n].resp.status, l.since,
                                      l.submit_at, l.timeout)
            IN /\ l.result = l.net[n].resp
               /\ alone = "return" =>
                    l.pc = "done" /\ l.outcome = "returned"
                      /\ l.retval = l.net[n].resp
               /\ alone = "timeout" =>
                    l.pc = "done" /\ l.outcome = "Timeout"
               /\ alone = "sleep" => l.pc = "sleep" /\ l.outcome = "none"

C11_NoInterference ==
    /\ [](par.on =>
            /\ \A i \in Invocations : ParOwn(i)
            /\ \A i, j \in Invocations :
                 (i # j /\ par.drv[i].task_id # NoTaskId) =>
                     par.drv[i].task_id # par.drv[j].task_id)
    /\ [][par.on =>
            \A i, j \in Invocations :
                (i # j /\ par.drv'[i] # par.drv[i]) =>
                    par.drv'[j] = par.drv[j]]_vars

\* both invocations polled side by side; the first timed out on its own
\* task while the second returned the result of its own
C11_Witness ==
    /\ par.on
    /\ par.drv[1].task_id = "t2"
    /\ par.drv[2].task_id = "t1"
    /\ par.drv[1].start_time # par.drv[2].start_time
    /\ par.drv[1].outcome = "Timeout"
    /\ par.drv[2].outcome = "returned"
    /\ par.drv[2].retval.task_id = "t1"
    /\ Len(par.drv[1].net) = 4
    /\ Len(par.drv[2].net) = 4

----------------------------------------------------------------------------
(* C12 as stated: after create_task the descriptor's consumerId and apiKey  *)
(* are the caller's values when the caller set them (they are not None) and *)
(* the session's otherwise; the other fields are as built; the payload      *)
(* carries the resulting values.                                            *)

SharedRest(t) ==
    [k \in DOMAIN t \ {"consumerId", "apiKey"} |-> t[k]]

C12_DefaultsWhenNone ==
    Len(net) >= 2 =>
        /\ task.consumerId = (IF orig.consumerId # None THEN orig.consumerId
                              ELSE defaultConsumerId)
        /\ task.apiKey = (IF orig.apiKey # None THEN orig.apiKey
                          ELSE defaultApiKey)
        /\ SharedRest(task) = SharedRest(orig)
        /\ net[2].data.consumer_id = task.consumerId
        /\ net[2].data.apiKey = task.apiKey

(* C12 amended: the caller's consumerId and apiKey are kept when they are   *)
(* set to a non-empty string; None and the empty string are both replaced   *)
(* by the session's value.  The other fields are as built, the payload      *)
(* carries the resulting values, and no step changes the session defaults.  *)

C12_DefaultsWhenEmpty ==
    /\ [](/\ Len(net) >= 2 =>
               /\ task.consumerId =
                      (IF orig.consumerId \notin {None, <<>>}
                       THEN orig.consumerId ELSE defaultConsumerId)
               /\ task.apiKey =
                      (IF orig.apiKey \notin {None, <<>>}
                       THEN orig.apiKey ELSE defaultApiKey)
               /\ SharedRest(task) = SharedRest(orig)
               /\ net[2].data.consumer_id = task.consumerId
               /\ net[2].data.apiKey = task.apiKey
          /\ Len(net) < 2 => task = orig)
    /\ [][UNCHANGED <<defaultConsumerId, defaultApiKey>>]_vars

\* the caller set consumerId to the empty string and the session has one
C12_Witness ==
    /\ Len(net) >= 2
    /\ orig.consumerId = <<>>
    /\ defaultConsumerId = <<"c">>
    /\ task.consumerId = <<"c">>
    /\ task.apiKey = defaultApiKey

----------------------------------------------------------------------------
(* Workflow.__init__ on a client whose apiKey is any short string           *)

MaxKeyLen == 4

KeyChars == {"a", "b", "#"}

\* the non-empty strings of at most MaxKeyLen characters
KeyStrings == UNION {[1..n -> KeyChars] : n \in 1..MaxKeyLen}

InitParse ==
    /\ defaultConsumerId = None
    /\ defaultApiKey = None
    /\ Parked
    /\ par = NoPar
    /\ \E key \in KeyStrings :
         fn = [op |-> "parse", arg |-> key, done |-> FALSE]

Workflow_init ==
    /\ fn.op = "parse"
    /\ ~fn.done
    /\ LET parsed == parse_api_key_string(fn.arg)
       IN /\ defaultConsumerId' = parsed.consumerId
          /\ defaultApiKey' = parsed.apiKey
          /\ fn' = [op |-> "parse", arg |-> fn.arg, done |-> TRUE,
                    out |-> parsed]
    /\ UNCHANGED <<task, orig, pc, timeout, interval, task_id, start_time,
                   result, outcome, retval, clock, remote, net, slept,
                   cancels, par>>

SpecParse == InitParse /\ [][Workflow_init]_vars

Chars(str) == {str[i] : i \in 1..Len(str)}

(* C13: parse_api_key_string splits at the first `#`: without one the       *)
(* consumerId is empty and the apiKey the whole string; with one the        *)
(* consumerId is what precedes the first `#` and holds none, the apiKey is  *)
(* all that follows, and consumerId + `#` + apiKey is the input.  The       *)
(* Workflow object keeps the two parts as its defaults.                     *)

C13_SplitAtFirstHash ==
    (fn.op = "parse" /\ fn.done) =>
        /\ IF "#" \notin Chars(fn.arg)
           THEN fn.out.consumerId = <<>> /\ fn.out.apiKey = fn.arg
           ELSE /\ "#" \notin Chars(fn.out.consumerId)
                /\ fn.out.consumerId \o <<"#">> \o fn.out.apiKey = fn.arg
        /\ defaultConsumerId = fn.out.consumerId
        /\ defaultApiKey = fn.out.apiKey

\* a key with two separators: the second stays in the apiKey
C13_Witness ==
    /\ fn.op = "parse"
    /\ fn.done
    /\ fn.arg = <<"a", "#", "b", "#">>
    /\ fn.out.consumerId = <<"a">>
    /\ fn.out.apiKey = <<"b", "#">>

----------------------------------------------------------------------------
(* Construction of a descriptor followed by its run                         *)

\* sample of the values of int.from_bytes(randbytes(8)) % (2^53 - 1)
SeedDraws == {0, 7}

\* the option dictionaries a caller passes to the three constructors
BuildOptions ==
    { [type |-> "upscaler", options |-> [job_id_prefix |-> <<"p">>]],
      [type |-> "upscaler", options |-> [image_url |-> "img"]],
      [type |-> "flux-lora", options |-> [prompt |-> "a cat"]],
      [type |-> "flux-lora", options |-> [lora_name |-> "lora"]],
      [type |-> "flux-lora",
       options |-> [prompt |-> "a cat", lora_name |-> "lora"]],
      [type |-> "flux-lora",
       options |-> [prompt |-> "a cat", lora_name |-> "lora",
                    aspect_ratio |-> "1:1", width |-> <<512>>,
                    height |-> NoneInt, steps |-> <<4>>]],
      [type |-> "txt2vid", options |-> [seed |-> <<5>>]],
      [type |-> "txt2vid", options |-> [prompt |-> "a dog"]],
      [type |-> "txt2vid",
       options |-> [prompt |-> "a dog", width |-> <<640>>,
                    length |-> NoneInt, seed |-> <<5>>, fps |-> <<12>>]] }

\* the constructor of the class named by type
Construct(type, options, rnd) ==
    CASE type = "upscaler" -> UpscalerTask(options)
      [] type = "flux-lora" -> FluxLoraTask(options)
      [] type = "txt2vid" -> Text2VideoTask(options, rnd)

InitBuild ==
    /\ defaultConsumerId = parse_api_key_string(<<"c", "#", "k">>).consumerId
    /\ defaultApiKey = parse_api_key_string(<<"c", "#", "k">>).apiKey
    /\ task = NoDescriptor
    /\ orig = NoDescriptor
    /\ pc = "unbuilt"
    /\ timeout = 0
    /\ interval = 0
    /\ task_id = NoTaskId
    /\ start_time = 0
    /\ result = NoResult
    /\ outcome = "none"
    /\ retval = NoResult
    /\ clock = 0
    /\ remote = "none"
    /\ net = <<>>
    /\ slept = <<>>
    /\ cancels = <<>>
    /\ par = NoPar
    /\ \E b \in BuildOptions :
         fn = [op |-> "construct", type |-> b.type, options |-> b.options,
               done |-> FALSE, out |-> "pending"]

\* the caller builds the descriptor; a KeyError ends the caller's script
\* before it reaches execute_workflow_and_wait_for_result
construct ==
    /\ pc = "unbuilt"
    /\ fn.op = "construct"
    /\ ~fn.done
    /\ \E rnd \in SeedDraws :
         LET t == Construct(fn.type, fn.options, rnd)
         IN IF Raised(t)
            THEN /\ pc' = "construction_failed"
                 /\ fn' = [fn EXCEPT !.done = TRUE, !.out = KeyError]
                 /\ UNCHANGED <<task, orig>>
            ELSE /\ pc' = "idle"
                 /\ fn' = [fn EXCEPT !.done = TRUE, !.out = "built"]
                 /\ task' = t
                 /\ orig' = t
    /\ UNCHANGED <<par, defaultConsumerId, defaultApiKey, timeout, interval,
                   task_id, start_time, result, outcome, retval, clock,
                   remote, net, slept, cancels>>

NextBuild ==
    \/ construct
    \/ Next

SpecBuild == InitBuild /\ [][NextBuild]_vars

----------------------------------------------------------------------------
(* C14 *)

\* the fields the specification names as required, per task type
RequiredFields(type) ==
    CASE type = "upscaler" -> {"image_url"}
      [] type = "flux-lora" -> {"prompt", "lora_name"}
      [] type = "txt2vid" -> {"prompt"}

LacksRequired ==
    /\ fn.op = "construct"
    /\ ~(RequiredFields(fn.type) \subseteq DOMAIN fn.options)

\* C14: a construction whose options lack a required field of the task type
\* ends in a construction error, no descriptor comes out of it, the run never
\* leaves the construction step and no request is ever sent for it.
C14_MissingFieldFailsConstruction ==
    LacksRequired =>
        /\ pc \in {"unbuilt", "construction_failed"}
        /\ fn.done => (pc = "construction_failed" /\ fn.out = KeyError)
        /\ task = NoDescriptor
        /\ net = <<>>
        /\ cancels = <<>>
        /\ remote = "none"

\* a style-adapter construction without lora_name has failed
C14_Witness ==
    /\ LacksRequired
    /\ fn.type = "flux-lora"
    /\ "prompt" \in DOMAIN fn.options
    /\ fn.done
    /\ pc = "construction_failed"

----------------------------------------------------------------------------
(* C15 *)

\* the defaults the specification documents, per task type
DocumentedDefaults(type) ==
    CASE type = "flux-lora" ->
           [aspect_ratio |-> "custom", width |-> <<1024>>,
            height |-> <<1024>>, guidance |-> <<6>>, steps |-> <<20>>]
      [] type = "txt2vid" ->
           [width |-> <<848>>, height |-> <<480>>, length |-> <<37>>,
            steps |-> <<30>>, fps |-> <<24>>, quality |-> <<80>>]

\* the optional numeric fields of the payload, per task type
OptionalNumeric(type) ==
    CASE type = "flux-lora" -> {"width", "height", "guidance", "steps"}
      [] type = "txt2vid" -> {"width", "height", "length", "steps", "seed",
                              "fps", "quality"}

\* C15: in the payload of a constructed style-adapter or text-to-video
\* descriptor every optional field holds the caller's value when one was
\* supplied and the documented default otherwise, and no optional numeric
\* field is null or absent.
C15_DefaultsNeverNull ==
    (fn.op = "construct" /\ fn.out = "built"
        /\ fn.type \in {"flux-lora", "txt2vid"}) =>
        LET p == task_details(task).parameters
            d == DocumentedDefaults(fn.type)
        IN /\ \A f \in DOMAIN d :
                p[f] = IF f \in DOMAIN fn.options THEN fn.options[f]
                       ELSE d[f]
           /\ \A f \in OptionalNumeric(fn.type) :
                f \in DOMAIN p /\ p[f] # NoneInt

----------------------------------------------------------------------------
(* The job id of create_task as a function of prefix and random draws       *)

MaxDraw == 21

\* the random draws behind one call of generate_random_hex(length): a sample
\* of the sequences over 0..MaxDraw
Draws(length) ==
    {[i \in 1..length |-> (a + b * i) % (MaxDraw + 1)] :
        a \in 0..MaxDraw, b \in 0..MaxDraw}

\* job_id_prefix values of a descriptor
JobIdPrefixes == {None, <<>>, <<"p">>, <<"a", "-">>, DefaultJobIdPrefix}

InitJobId ==
    /\ defaultConsumerId = None
    /\ defaultApiKey = None
    /\ Parked
    /\ par = NoPar
    /\ \E prefix \in JobIdPrefixes, draw \in Draws(HexLen) :
         fn = [op |-> "job_id", prefix |-> prefix, draw |-> draw,
               done |-> FALSE, out |-> <<>>]

\* the first three statements of create_task that make the job id
create_task_job_id ==
    /\ fn.op = "job_id"
    /\ ~fn.done
    /\ fn' = [fn EXCEPT
                !.done = TRUE,
                !.out = job_id_of(Or(fn.prefix, DefaultJobIdPrefix),
                                  random_hex(HexLen, fn.draw))]
    /\ UNCHANGED mainVars
    /\ UNCHANGED par

SpecJobId == InitJobId /\ [][create_task_job_id]_vars

----------------------------------------------------------------------------
(* C16 *)

LowerHex ==
    {"0", "1", "2", "3", "4", "5", "6", "7", "8", "9",
     "a", "b", "c", "d", "e", "f"}

\* j is p, a dash, and ten characters of 0-9a-f
HasForm(j, p) ==
    /\ Len(j) = Len(p) + 11
    /\ SubSeq(j, 1, Len(p)) = p
    /\ j[Len(p) + 1] = "-"
    /\ \A i \in (Len(p) + 2)..Len(j) : j[i] \in LowerHex

\* C16 as stated: the job id is prefix, dash, ten lowercase hex characters,
\* where the prefix is the descriptor's job-id prefix whenever it is set.
C16_JobIdFormWhenSet ==
    (fn.op = "job_id" /\ fn.done) =>
        HasForm(fn.out,
                IF fn.prefix # None THEN fn.prefix ELSE DefaultJobIdPrefix)

\* C16: the job id is prefix, dash, ten lowercase hex characters, where the
\* prefix is the descriptor's job-id prefix when it is a non-empty string and
\* sdk-workflow otherwise.
C16_JobIdForm ==
    (fn.op = "job_id" /\ fn.done) =>
        HasForm(fn.out,
                IF fn.prefix # None /\ fn.prefix # <<>> THEN fn.prefix
                ELSE DefaultJobIdPrefix)

\* an empty prefix was replaced and the suffix holds letters and digits
C16_Witness ==
    /\ fn.op = "job_id"
    /\ fn.done
    /\ fn.prefix = <<>>
    /\ SubSeq(fn.out, 1, 13) = DefaultJobIdPrefix \o <<"-">>
    /\ fn.out[14] = "f"
    /\ fn.out[15] = "0"
    /\ Len(fn.out) = 23

----------------------------------------------------------------------------
(* cancel_task called repeatedly on a task in any state                     *)

MaxCancelCalls == 3

\* messages the remote puts in a successful answer
CancelMsgs == {CancelMsg, "already"}

InitCancel ==
    /\ defaultConsumerId = parse_api_key_string(<<"c", "#", "k">>).consumerId
    /\ defaultApiKey = parse_api_key_string(<<"c", "#", "k">>).apiKey
    /\ task = NoDescriptor
    /\ orig = NoDescriptor
    /\ pc = "absent"
    /\ timeout = 0
    /\ interval = 0
    /\ task_id = NoTaskId
    /\ start_time = 0
    /\ result = NoResult
    /\ outcome = "none"
    /\ retval = NoResult
    /\ clock = 0
    /\ remote \in Statuses
    /\ net = <<>>
    /\ slept = <<>>
    /\ cancels = <<>>
    /\ par = NoPar
    /\ fn = NoCall

\* a variant that refuses an answer whose message is not the usual one
cancel_task_return_strict(ok, answer) ==
    IF ok /\ answer.msg = CancelMsg
    THEN [task_id |-> answer.task_id, msg |-> answer.msg]
    ELSE [error |-> "CancellationFailed"]

\* what cancel_task gives back: the two fields of the answer, or the raise
cancel_task_return(ok, answer) ==
    IF ok
    THEN [task_id |-> answer.task_id, msg |-> answer.msg]
    ELSE [error |-> "CancellationFailed"]

\* cancel_task(TaskId) by a caller that holds only the task id; `seen` keeps
\* the status the task had when the call was made
cancel_task_by_id ==
    /\ Len(cancels) < MaxCancelCalls
    /\ \E ok \in BOOLEAN, msg \in CancelMsgs :
         LET answer == [task_id |-> TaskId, msg |-> msg]
         IN /\ cancels' = Append(cancels,
                   [req |-> Request(cancel_task_url,
                                    cancel_task_data(TaskId), ok,
                                    IF ok THEN answer ELSE NoResp),
                    out |-> cancel_task_return(ok, answer),
                    seen |-> remote])
            /\ remote' = IF ok THEN RemoteCancel(remote) ELSE remote
    /\ UNCHANGED <<par, fn, defaultConsumerId, defaultApiKey, task, orig, pc,
                   timeout, interval, task_id, start_time, result, outcome,
                   retval, clock, net, slept>>

NextCancel ==
    \/ cancel_task_by_id
    \/ RemoteProgress

SpecCancel == InitCancel /\ [][NextCancel]_vars

----------------------------------------------------------------------------
(* C17 *)

\* C17: cancel_task can be called whatever the status of the task and however
\* many calls came before; every call sends one task_cancel request, gives
\* back the task id and message of the answer when the HTTP status is a
\* success, and raises the cancellation error exactly when it is not.
C17_CancelHasNoPrecondition ==
    /\ Len(cancels) < MaxCancelCalls => ENABLED cancel_task_by_id
    /\ \A i \in 1..Len(cancels) :
         LET c == cancels[i]
         IN /\ c.req.url = cancel_task_url
            /\ c.req.data = [task_id |-> TaskId, apiKey |-> defaultApiKey]
            /\ c.req.ok =>
                 c.out = [task_id |-> c.req.resp.task_id,
                          msg |-> c.req.resp.msg]
            /\ ~c.req.ok => c.out = [error |-> "CancellationFailed"]

\* two successful calls in a row on a task that had already finished
C17_Witness ==
    /\ Len(cancels) >= 2
    /\ \A i \in 1..2 :
         /\ cancels[i].seen = "finished"
         /\ cancels[i].req.ok
         /\ cancels[i].out.task_id = TaskId
    /\ cancels[2].out.msg = "already"

----------------------------------------------------------------------------
(* C18 *)

\* C18: a query answered with finished or failed ends the invocation with
\* that answer as its result, also when the answer arrives after the
\* deadline; an invocation that raised Timeout has never received a finished
\* or failed answer.
C18_TerminalBeforeDeadline ==
    /\ \A i \in 1..Len(net) :
         (IsQuery(net[i]) /\ net[i].ok
            /\ net[i].resp.status \in {"finished", "failed"}) =>
            /\ i = Len(net)
            /\ pc = "done"
            /\ outcome = "returned"
            /\ retval = net[i].resp
    /\ outcome = "Timeout" =>
         \A i \in 1..Len(Queries) :
            StatusOf(Queries[i]) \notin {"finished", "failed"}

\* a finished answer that arrived after the deadline was returned
C18_Witness ==
    /\ outcome = "returned"
    /\ retval.status = "finished"
    /\ Elapsed > timeout

----------------------------------------------------------------------------
(* One invocation whose awaited calls and sleeps all come back              *)

InitLive ==
    /\ Init
    /\ defaultConsumerId = <<"c">>
    /\ task.task_type = "txt2vid"

\* every awaited call answers and every sleep ends
CallsReturn ==
    /\ WF_vars(resource_request)
    /\ WF_vars(create_task)
    /\ WF_vars(query_task_result)
    /\ WF_vars(sleep)

SpecLive == InitLive /\ [][Next]_vars /\ CallsReturn

----------------------------------------------------------------------------
(* C19 *)

\* C19: an invocation that was called ends (with a result, a call failure,
\* a configuration error or Timeout) whatever statuses the remote reports,
\* and it never sends more than floor(timeout / interval) + 2 queries.
C19_TerminatesWithinBound ==
    /\ [](pc \notin {"idle", "done"} =>
            Len(Queries) <= (timeout \div interval) + 2)
    /\ []((pc = "done" /\ outcome # "ConfigurationError") =>
            Len(Queries) <= (timeout \div interval) + 2)
    /\ [](pc # "idle" => <>(pc = "done"))

\* Timeout was raised after exactly floor(timeout / interval) + 2 queries
C19_Witness ==
    /\ pc = "done"
    /\ outcome = "Timeout"
    /\ timeout > 0
    /\ Len(Queries) = (timeout \div interval) + 2

----------------------------------------------------------------------------
(* C20 *)

\* C20: every resource_request, task_result_query and task_cancel request
\* carries the apiKey of the session; the key the caller set on the
\* descriptor is sent in the task_create payload only.
C20_SessionKeyOutsideCreate ==
    /\ \A i \in 1..Len(net) :
         IF net[i].url = create_task_url
         THEN net[i].data.apiKey = Or(orig.apiKey, defaultApiKey)
         ELSE net[i].data.apiKey = defaultApiKey
    /\ \A i \in 1..Len(cancels) :
         cancels[i].req.data.apiKey = defaultApiKey

\* a task created under the caller's own key was polled and cancelled with
\* the session key
C20_Witness ==
    /\ orig.apiKey = <<"o">>
    /\ defaultApiKey = <<"k">>
    /\ Len(net) >= 3
    /\ net[1].url = resource_request_url
    /\ net[1].data.apiKey = <<"k">>
    /\ net[2].url = create_task_url
    /\ net[2].data.apiKey = <<"o">>
    /\ IsQuery(net[3])
    /\ net[3].data.apiKey = <<"k">>
    /\ Len(cancels) >= 1
    /\ cancels[1].req.url = cancel_task_url
    /\ cancels[1].req.data.apiKey = <<"k">>


====
